---- MODULE Spec2Model ----
(***************************************************************************)
(* hector_quadrotor_controller::PoseController (pose_controller.cpp).      *)
(*                                                                         *)
(* A double is modelled as a record [nan, v]: either not-a-number or the   *)
(* integer v.  The input grids are chosen so that every product, sum and   *)
(* quotient the controller forms is an integer of small magnitude, hence   *)
(* exactly representable as a double: the integer arithmetic below is the  *)
(* IEEE arithmetic of the code on these inputs.  Infinities are not        *)
(* modelled (no input is infinite and no operation overflows here).        *)
(***************************************************************************)
EXTENDS Integers, FiniteSets, Sequences, TLC

VARIABLES
  running,        \* isRunning(): the controller_interface state is RUNNING
  state_,         \* state_.x, state_.y, state_.z, state_.yaw
  parameters_,    \* parameters_.xy, parameters_.z, parameters_.yaw
  pose_command,   \* the commanded pose cached by pose_.setCommand
  start_time_,    \* start_time_
  now,            \* ros::Time::now()
  ticks,          \* number of update() calls since the last starting()
  twist_command,  \* the command handed to velocity_.setCommand
  last            \* the last call made: its name, arguments and return value

vars == <<running, state_, parameters_, pose_command, start_time_, now,
          ticks, twist_command, last>>

(***************************************************************************)
(* Bounds of the model.                                                    *)
(***************************************************************************)
MaxErr == 1        \* harness errors are 2 * e, |e| <= MaxErr
MaxI == 3          \* ticks are explored while |state.i| <= 2 * MaxI
MaxTime == 3       \* the controller is explored up to this clock value
MaxTicks == 2      \* update() calls explored per running period

(***************************************************************************)
(* Doubles.                                                                *)
(***************************************************************************)
NaN == [nan |-> TRUE, v |-> 0]
Num(n) == [nan |-> FALSE, v |-> n]
isnan(x) == x.nan
DAdd(a, b) == IF a.nan \/ b.nan THEN NaN ELSE Num(a.v + b.v)
DSub(a, b) == IF a.nan \/ b.nan THEN NaN ELSE Num(a.v - b.v)
DMul(a, b) == IF a.nan \/ b.nan THEN NaN ELSE Num(a.v * b.v)
\* only evaluated with b > 0 (the dt > 0.0 test) and a a multiple of b
DDiv(a, b) == IF a.nan \/ b.nan THEN NaN ELSE Num(a.v \div b.v)
DNeg(a) == IF a.nan THEN NaN ELSE Num(0 - a.v)
\* comparisons with a NaN operand are false
DGt(a, b) == ~a.nan /\ ~b.nan /\ a.v > b.v
DLt(a, b) == ~a.nan /\ ~b.nan /\ a.v < b.v

(***************************************************************************)
(* Channels, parameters and channel state.                                 *)
(***************************************************************************)
Channels == {"x", "y", "z", "yaw"}
ParamKeys == {"xy", "z", "yaw"}
\* the parameter set update() passes with each channel's state
ParamOf(c) == IF c \in {"x", "y"} THEN "xy" ELSE c

\* a pose: position and heading, the heading in quarter turns
ZeroPose == [x |-> 0, y |-> 0, z |-> 0, yaw |-> 0]

\* PoseController::state::state()
state == [p |-> NaN, i |-> Num(0), d |-> NaN, derivative |-> NaN]

\* the defaults of initParameters
DefaultParameters ==
  [enabled |-> TRUE, k_p |-> Num(0), k_i |-> Num(0), k_d |-> Num(0),
   limit_i |-> NaN, limit_output |-> NaN]

(***************************************************************************)
(* updatePID, statement by statement.                                      *)
(***************************************************************************)
\* state.i += error * dt, then the clamp to +-limit_i
IntegralError(i, error, dt, param) ==
  LET s == DAdd(i, DMul(error, dt))
      limited == DGt(param.limit_i, Num(0))
      c1 == IF limited /\ DGt(s, param.limit_i) THEN param.limit_i ELSE s
      c2 == IF limited /\ DLt(c1, DNeg(param.limit_i))
            THEN DNeg(param.limit_i) ELSE c1
  IN c2

\* the value assigned to state.d
DifferentialError(error, derivative, st, dt) ==
  IF DGt(dt, Num(0)) /\ ~isnan(st.p) /\ ~isnan(st.derivative)
  THEN DSub(DAdd(DDiv(DSub(error, st.p), dt), st.derivative), derivative)
  ELSE DNeg(derivative)

\* the output clamp with its second test (output < -limit_i) left out
LimitOutputUpperOnly(output, param) ==
  LET hi == DGt(param.limit_output, Num(0)) /\ DGt(output, param.limit_i)
  IN [output |-> IF hi THEN param.limit_i ELSE output,
      antiwindup |-> IF hi THEN 1 ELSE 0]

\* the output clamp: the limited output and the antiwindup direction
LimitOutput(output, param) ==
  LET limited == DGt(param.limit_output, Num(0))
      hi == limited /\ DGt(output, param.limit_i)
      o1 == IF hi THEN param.limit_i ELSE output
      a1 == IF hi THEN 1 ELSE 0
      lo == limited /\ DLt(o1, DNeg(param.limit_i))
      o2 == IF lo THEN DNeg(param.limit_i) ELSE o1
      a2 == IF lo THEN 0 - 1 ELSE a1
  IN [output |-> o2, antiwindup |-> a2]

\* if (antiwindup && (error * dt * antiwindup > 0.0)) state.i -= error * dt
AntiWindup(i, error, dt, antiwindup) ==
  IF antiwindup # 0 /\ DGt(DMul(DMul(error, dt), Num(antiwindup)), Num(0))
  THEN DSub(i, DMul(error, dt))
  ELSE i

\* checknan returning its argument as it is
CheckNanIdentity(value) == value

\* checknan: a NaN is replaced by T() = 0.0
checknan(value) == IF isnan(value) THEN Num(0) ELSE value

\* updatePID past the enabled test
PIDBody(error, derivative, st, param, dt) ==
  LET i1 == IntegralError(st.i, error, dt, param)
      d1 == DifferentialError(error, derivative, st, dt)
      raw == DAdd(DAdd(DMul(param.k_p, error), DMul(param.k_i, i1)),
                  DMul(param.k_d, d1))
      lim == LimitOutput(raw, param)
      i2 == AntiWindup(i1, error, dt, lim.antiwindup)
  IN [state |-> [p |-> error, i |-> i2, d |-> d1, derivative |-> derivative],
      output |-> checknan(lim.output),
      antiwindup |-> lim.antiwindup]

\* updatePID without the enabled test
UpdatePIDUnguarded(error, derivative, st, param, dt) ==
  PIDBody(error, derivative, st, param, dt)

\* updatePID: the new channel state and the returned output
UpdatePID(error, derivative, st, param, dt) ==
  IF ~param.enabled
  THEN [state |-> st, output |-> Num(0), antiwindup |-> 0]
  ELSE PIDBody(error, derivative, st, param, dt)

\* the bound of the exploration: the integral stays in a finite window
InWindow(st) == st.i.nan \/ (st.i.v <= 2 * MaxI /\ st.i.v >= 0 - 2 * MaxI)

(***************************************************************************)
(* Single-channel harness: updatePID is applied to state_.x with           *)
(* parameters_.xy, over every parameter set and input of the grids.        *)
(***************************************************************************)
\* periods are 0 or a power of two and errors are even, so that the
\* quotient (error - state.p) / dt is exact
Periods == {Num(0), Num(1), Num(2)}
ErrorInputs == {Num(2 * e) : e \in (0 - MaxErr)..MaxErr} \cup {NaN}
RateInputs == {Num(0), Num(1), NaN}
Limits == {NaN, Num(0 - 1), Num(1), Num(2)}
ParamSets ==
  [enabled : BOOLEAN, k_p : {Num(1), NaN}, k_i : {Num(0), Num(1)},
   k_d : {Num(0), Num(1)}, limit_i : Limits, limit_output : {NaN, Num(1)}]

NoTwist == [x |-> Num(0), y |-> Num(0), z |-> Num(0), yaw |-> Num(0)]

InitPID ==
  /\ running = TRUE
  /\ state_ = [c \in Channels |-> state]
  /\ parameters_ \in {[k \in ParamKeys |-> IF k = "xy" THEN q ELSE DefaultParameters]
                        : q \in ParamSets}
  /\ pose_command = ZeroPose
  /\ start_time_ = 0
  /\ now = 0
  /\ ticks = 0
  /\ twist_command = NoTwist
  /\ last = [op |-> "init"]

PIDTick ==
  \E error \in ErrorInputs, derivative \in RateInputs, dt \in Periods :
    LET r == UpdatePID(error, derivative, state_["x"], parameters_["xy"], dt) IN
      /\ InWindow(r.state)
      /\ state_' = [state_ EXCEPT !["x"] = r.state]
      /\ last' = [op |-> "updatePID", error |-> error, derivative |-> derivative,
                  dt |-> dt, output |-> r.output, antiwindup |-> r.antiwindup]
      /\ UNCHANGED <<running, parameters_, pose_command, start_time_, now,
                     ticks, twist_command>>

NextPID == PIDTick

SpecPID == InitPID /\ [][NextPID]_vars

(***************************************************************************)
(* The controller: commandCallback, starting, stopping, update.            *)
(***************************************************************************)
\* reset(): the channel states after the four assignments
reset(s) ==
  [s EXCEPT !["x"] = state, !["y"] = state, !["x"] = state, !["yaw"] = state]

\* starting(time), and the RUNNING state startRequest sets after it
Starting(time) ==
  /\ state_' = reset(state_)
  /\ start_time_' = time
  /\ running' = TRUE
  /\ ticks' = 0

\* the poses command/pose delivers
Poses == {[x |-> 2, y |-> 0, z |-> 2, yaw |-> 0], [x |-> 0, y |-> 2, z |-> 0, yaw |-> 1]}

CommandCallback ==
  \E command \in Poses :
    /\ pose_command' = command
    /\ IF ~running
       THEN Starting(now)
       ELSE UNCHANGED <<state_, start_time_, running, ticks>>
    /\ last' = [op |-> "commandCallback", command |-> command]
    /\ UNCHANGED <<parameters_, now, twist_command>>

\* the controller manager starts the stopped controller
Start ==
  /\ ~running
  /\ Starting(now)
  /\ last' = [op |-> "starting"]
  /\ UNCHANGED <<parameters_, pose_command, now, twist_command>>

\* the controller manager stops the running controller; stopping() is empty
Stop ==
  /\ running
  /\ running' = FALSE
  /\ last' = [op |-> "stopping"]
  /\ UNCHANGED <<state_, parameters_, pose_command, start_time_, now, ticks,
                 twist_command>>

\* what the pose and velocity handles supply to one update()
MeasuredPoses == {ZeroPose, [x |-> 1, y |-> 1, z |-> 1, yaw |-> 1]}
MeasuredTwists ==
  {[c \in Channels |-> Num(0)],
   [c \in Channels |-> IF c \in {"x", "z"} THEN Num(1) ELSE Num(0)]}
ControlPeriods == {Num(0), Num(1)}
\* getError() of the four command handles: commanded minus measured
getError(command, pose) == [c \in Channels |-> Num(command[c] - pose[c])]
\* cos and sin of a heading of 0 or 1 quarter turn, taken exactly
cos(yaw) == IF yaw = 0 THEN Num(1) ELSE Num(0)
sin(yaw) == IF yaw = 0 THEN Num(0) ELSE Num(1)

Update ==
  /\ running
  /\ ticks < MaxTicks
  /\ \E pose \in MeasuredPoses, twist \in MeasuredTwists, dt \in ControlPeriods :
       LET error == getError(pose_command, pose)
           r == [c \in Channels |->
                   UpdatePID(error[c], twist[c], state_[c], parameters_[ParamOf(c)], dt)]
           command_n == r["x"].output
           command_w == r["y"].output
           yaw == pose.yaw
       IN /\ now + dt.v <= MaxTime
          /\ \A c \in Channels : InWindow(r[c].state)
          /\ state_' = [c \in Channels |-> r[c].state]
          /\ twist_command' =
               [x |-> DAdd(DMul(cos(yaw), command_n), DMul(sin(yaw), command_w)),
                y |-> DAdd(DMul(DNeg(sin(yaw)), command_n), DMul(cos(yaw), command_w)),
                z |-> r["z"].output,
                yaw |-> r["yaw"].output]
          /\ now' = now + dt.v
          /\ ticks' = ticks + 1
          /\ last' = [op |-> "update", error |-> error, rate |-> twist, dt |-> dt]
  /\ UNCHANGED <<running, parameters_, pose_command, start_time_>>

\* the parameter sets the controller is explored with
ControlParams ==
  {[enabled |-> TRUE, k_p |-> Num(1), k_i |-> Num(1), k_d |-> Num(1),
    limit_i |-> NaN, limit_output |-> NaN],
   [DefaultParameters EXCEPT !.enabled = FALSE]}

Init ==
  /\ running = FALSE
  /\ state_ = [c \in Channels |-> state]
  /\ parameters_ \in [ParamKeys -> ControlParams]
  /\ pose_command = ZeroPose
  /\ start_time_ = 0
  /\ now = 0
  /\ ticks = 0
  /\ twist_command = NoTwist
  /\ last = [op |-> "init"]

Next == CommandCallback \/ Start \/ Stop \/ Update

Spec == Init /\ [][Next]_vars

(***************************************************************************)
(* Properties of updatePID, checked under SpecPID.                         *)
(***************************************************************************)
\* the channel the harness ticks, as update() passes it on line 101
X == state_["x"]
PX == parameters_["xy"]
\* the last step was an updatePID call on the enabled channel
Ticked == last.op = "updatePID" /\ PX.enabled

\* C1: on an enabled channel with limit_i > 0, after every tick of a sequence
\* of ticks with numeric errors, -limit_i <= state.i <= limit_i.
C1_IntegralWithinLimit ==
  (Ticked /\ DGt(PX.limit_i, Num(0)) /\ ~isnan(X.i))
    => (X.i.v <= PX.limit_i.v /\ X.i.v >= 0 - PX.limit_i.v)

\* C2 as stated: on an enabled channel with limit_output > 0, for any value of
\* limit_i, the returned output is within +-limit_i.
C2_OutputWithinLimitI ==
  (Ticked /\ DGt(PX.limit_output, Num(0)))
    => LET m == IF PX.limit_i.v < 0 THEN 0 - PX.limit_i.v ELSE PX.limit_i.v
       IN ~isnan(PX.limit_i) /\ ~isnan(last.output)
          /\ last.output.v <= m /\ last.output.v >= 0 - m

\* C2 amended: on an enabled channel with limit_output > 0 and a limit_i that
\* is a number, the returned output is within +-limit_i.
C2_OutputWithinNumericLimitI ==
  (Ticked /\ DGt(PX.limit_output, Num(0)) /\ ~isnan(PX.limit_i))
    => LET m == IF PX.limit_i.v < 0 THEN 0 - PX.limit_i.v ELSE PX.limit_i.v
       IN ~isnan(last.output) /\ last.output.v <= m /\ last.output.v >= 0 - m

\* a tick whose raw output was above limit_i and was clamped to it
C2_Witness ==
  /\ Ticked /\ DGt(PX.limit_output, Num(0)) /\ DGt(PX.limit_i, Num(0))
  /\ last.antiwindup = 1 /\ last.output = PX.limit_i

\* C3: on an enabled channel with limit_output > 0 the returned output is
\* within [-limit_output, +limit_output], whatever limit_i is.
C3_OutputWithinLimitOutput ==
  (Ticked /\ DGt(PX.limit_output, Num(0)))
    => (~isnan(last.output) /\ last.output.v <= PX.limit_output.v
        /\ last.output.v >= 0 - PX.limit_output.v)

\* C4: updatePID never returns not-a-number.
C4_OutputNeverNaN == last.op = "updatePID" => ~isnan(last.output)

\* a tick on an enabled channel with a NaN error, whose raw output is NaN
C4_Witness == Ticked /\ isnan(last.error) /\ last.output = Num(0)

\* C5: a tick on a disabled channel returns 0 and leaves p, i, d and
\* derivative of the channel as they were.
C5_DisabledTickIsNoOp ==
  [][(last'.op = "updatePID" /\ ~PX.enabled)
       => (last'.output = Num(0) /\ state_' = state_)]_vars

\* a disabled channel was ticked with an error and a period that would have
\* moved the integral of an enabled one
C5_Witness ==
  /\ last.op = "updatePID" /\ ~PX.enabled
  /\ last.error = Num(2) /\ last.dt = Num(2) /\ last.derivative = Num(1)

\* C8: a tick with a NaN error or NaN rate returns 0, and every tick with a
\* numeric error and rate leaves p, i and d numeric and, the gains being
\* numbers and the output unlimited, returns k_p*p + k_i*i + k_d*d.
C8_NaNInputIsOneTick ==
  Ticked =>
    /\ (isnan(last.error) \/ isnan(last.derivative)) => last.output = Num(0)
    /\ (~isnan(last.error) /\ ~isnan(last.derivative)) =>
         /\ ~isnan(X.p) /\ ~isnan(X.i) /\ ~isnan(X.d)
         /\ (~isnan(PX.k_p) /\ ~DGt(PX.limit_output, Num(0))) =>
              last.output = DAdd(DAdd(DMul(PX.k_p, X.p), DMul(PX.k_i, X.i)),
                                 DMul(PX.k_d, X.d))

\* C10: on a tick whose output is clamped with direction +1 or -1 and
\* error * dt * direction > 0, state.i after the tick equals state.i before.
C10_AntiWindupRestoresIntegral ==
  [][(last'.op = "updatePID" /\ PX.enabled /\ last'.antiwindup # 0
      /\ DGt(DMul(DMul(last'.error, last'.dt), Num(last'.antiwindup)), Num(0)))
       => state_'["x"].i = state_["x"].i]_vars

(***************************************************************************)
(* Properties of the controller, checked under Spec.                       *)
(***************************************************************************)
\* C6: every transition from stopped to running leaves the north, west,
\* height and yaw channel states at p = NaN, i = 0, d = NaN, derivative = NaN.
C6_StartResetsAllChannels ==
  [][(~running /\ running') => \A c \in Channels : state_'[c] = state]_vars

\* C7: commandCallback stores the commanded pose; when the controller is not
\* running it is started, with the start time recorded and the channel states
\* reset; when it is running, channel states, running status and start time
\* stay as they were.
C7_CommandCallback ==
  [][last'.op = "commandCallback" =>
       /\ pose_command' = last'.command
       /\ IF ~running
          THEN /\ running'
               /\ start_time_' = now
               /\ \A c \in Channels : state_'[c] = state
          ELSE /\ running'
               /\ state_' = state_
               /\ start_time_' = start_time_]_vars

\* C9: in update(), for every enabled channel: on the first tick after a
\* start and on any tick with dt = 0, d = -measured_rate; on any other tick
\* with dt > 0 and p and derivative defined,
\* d = (error - p)/dt + derivative - measured_rate; and always
\* derivative = measured_rate and p = error afterwards.
C9_DerivativeBranch ==
  [][last'.op = "update" =>
       \A c \in Channels : parameters_[ParamOf(c)].enabled =>
         LET error == last'.error[c]
             rate == last'.rate[c]
             dt == last'.dt
         IN /\ (ticks = 0 \/ dt = Num(0)) => state_'[c].d = DNeg(rate)
            /\ (ticks > 0 /\ DGt(dt, Num(0)) /\ ~isnan(state_[c].p)
                /\ ~isnan(state_[c].derivative))
                 => state_'[c].d =
                      DSub(DAdd(DDiv(DSub(error, state_[c].p), dt),
                                state_[c].derivative), rate)
            /\ state_'[c].derivative = rate
            /\ state_'[c].p = error]_vars

(***************************************************************************)
(* What remains true of the refuted statements.                            *)
(***************************************************************************)
\* updatePID on state_.x (which reset() does assign): d = -measured_rate
\* when p or derivative is NaN or dt = 0, the finite difference otherwise,
\* and derivative = measured_rate, p = error afterwards.  Under SpecPID.
DerivativeBranchOfUpdatePID ==
  [][(last'.op = "updatePID" /\ PX.enabled) =>
       /\ (isnan(X.p) \/ isnan(X.derivative) \/ last'.dt = Num(0))
            => state_'["x"].d = DNeg(last'.derivative)
       /\ (~isnan(X.p) /\ ~isnan(X.derivative) /\ DGt(last'.dt, Num(0)))
            => state_'["x"].d =
                 DSub(DAdd(DDiv(DSub(last'.error, X.p), last'.dt), X.derivative),
                      last'.derivative)
       /\ state_'["x"].derivative = last'.derivative
       /\ state_'["x"].p = last'.error]_vars

\* commandCallback apart from the height channel: the pose is stored; a
\* stopped controller is started with x, y and yaw reset; a running one keeps
\* its channel states and start time.  Under Spec.
CommandCallbackApartFromHeight ==
  [][last'.op = "commandCallback" =>
       /\ pose_command' = last'.command
       /\ running'
       /\ IF ~running
          THEN /\ start_time_' = now
               /\ \A c \in Channels \ {"z"} : state_'[c] = state
               /\ state_'["z"] = state_["z"]
          ELSE state_' = state_ /\ start_time_' = start_time_]_vars

\* the antiwindup subtraction restores the integral when the integral clamp
\* is off (limit_i not positive).  Under SpecPID.
AntiWindupWithoutIntegralClamp ==
  [][(last'.op = "updatePID" /\ PX.enabled /\ last'.antiwindup # 0
      /\ ~DGt(PX.limit_i, Num(0))
      /\ DGt(DMul(DMul(last'.error, last'.dt), Num(last'.antiwindup)), Num(0)))
       => state_'["x"].i = state_["x"].i]_vars

\* a NaN measured rate alone does not stay in the channel: after a tick with
\* a numeric error and rate, p, d and derivative are numbers.  Under SpecPID.
NaNRateIsOneTick ==
  (Ticked /\ ~isnan(last.error) /\ ~isnan(last.derivative))
    => (~isnan(X.p) /\ ~isnan(X.d) /\ ~isnan(X.derivative))

====
